---- MODULE Spec2Model ----
(***************************************************************************)
(* Model of src/src/match.py: the matching and scoring engine that pairs   *)
(* bank transactions with attachments (invoices, receipts).                *)
(*                                                                         *)
(* Every function of match.py is pure, so each one is an operator, and the *)
(* state is a call frame: fn (the function called), args (its arguments),  *)
(* ret (what it returned) and pc (the call's position).                    *)
(*                                                                         *)
(* Representation.                                                         *)
(*   str        a sequence of one-character strings, <<"R","F","0","1">>   *)
(*   None       the tuple <<"None">> (no str of the model has this shape)  *)
(*   date str   <<y, m, d>> for the text "YYYY-MM-DD"; strptime's parse is *)
(*              ParseDate, which fails on fields that are no calendar day, *)
(*              on any other text (<<"?">>) and on None                    *)
(*   exception  Raised, in place of the value of the call it ends          *)
(*   float      amounts are integers in thousandths of a currency unit;    *)
(*              confidences and similarities are integers in thousandths   *)
(*   dict       a function from the keys it has                            *)
(***************************************************************************)
EXTENDS Integers, Sequences, FiniteSets, TLC

VARIABLES pc, fn, args, ret

vars == <<pc, fn, args, ret>>

None == <<"None">>

NoFrame == [none |-> TRUE]

(***************************************************************************)
(* Bounds of the model.                                                    *)
(***************************************************************************)
MaxRefLen == 4

(***************************************************************************)
(* str helpers (Python built-ins used by match.py).                        *)
(***************************************************************************)
Letters == {"a", "b", "c", "d", "e", "f", "g", "x", "y",
            "A", "B", "C", "D", "E", "F", "G", "X", "Y", "R"}

Whitespace == {" ", "\t"}

\* str.isalpha() of one character
IsAlpha(c) == c \in Letters

\* str.isspace() of one character
IsSpace(c) == c \in Whitespace

\* the strings over alphabet S of length at most n
StrsUpTo(S, n) == UNION {[1..k -> S] : k \in 0..n}

\* s[i:] for a 0-based i, as Python slices
Drop(s, i) == SubSeq(s, i + 1, Len(s))

\* s[:i]
Take(s, i) == SubSeq(s, 1, i)

\* lines 47-49: i advanced from i over the alphabetic characters of s
RECURSIVE LeadingAlpha(_, _)
LeadingAlpha(s, i) ==
    IF i < Len(s) /\ IsAlpha(s[i + 1]) THEN LeadingAlpha(s, i + 1) ELSE i

\* the number of "0" characters s begins with, counted from i
RECURSIVE LeadingZeros(_, _)
LeadingZeros(s, i) ==
    IF i < Len(s) /\ s[i + 1] = "0" THEN LeadingZeros(s, i + 1) ELSE i

\* s.lstrip("0")
LStripZeros(s) == Drop(s, LeadingZeros(s, 0))

\* s.replace(" ", ""): only U+0020 is replaced
ReplaceSpaces(s) == SelectSeq(s, LAMBDA c : c # " ")

\* x or "0"
OrZero(s) == IF s = <<>> THEN <<"0">> ELSE s

(***************************************************************************)
(* normalize_reference (match.py 24-58)                                    *)
(***************************************************************************)
normalize_reference(ref) ==
    IF ref = None THEN None
    ELSE LET r == ReplaceSpaces(ref) IN
         IF r = <<>> THEN None
         ELSE IF IsAlpha(r[1])
              THEN LET i == LeadingAlpha(r, 0) IN
                   IF i < Len(r)
                   THEN Take(r, i) \o OrZero(LStripZeros(Drop(r, i)))
                   ELSE r
              ELSE OrZero(LStripZeros(r))

(***************************************************************************)
(* Calls of normalize_reference: the reference strings are all strings of  *)
(* length <= MaxRefLen over a space, a tab, a letter, a zero and another   *)
(* digit, and None.                                                        *)
(***************************************************************************)
RefAlphabet == {" ", "\t", "R", "0", "1"}

RefInputs == StrsUpTo(RefAlphabet, MaxRefLen) \cup {None}

InitNormalize ==
    /\ fn = "normalize_reference"
    /\ pc = "call"
    /\ \E r \in RefInputs : args = [ref |-> r]
    /\ ret = NoFrame

\* result = normalize_reference(ref)
Normalize ==
    /\ fn = "normalize_reference"
    /\ pc = "call"
    /\ ret' = [once |-> normalize_reference(args.ref)]
    /\ pc' = "returned"
    /\ UNCHANGED <<fn, args>>

\* the caller feeds the result back: normalize_reference(result)
Renormalize ==
    /\ fn = "normalize_reference"
    /\ pc = "returned"
    /\ ret' = [once |-> ret.once, twice |-> normalize_reference(ret.once)]
    /\ pc' = "renormalized"
    /\ UNCHANGED <<fn, args>>

NextNormalize == Normalize \/ Renormalize

SpecNormalize == InitNormalize /\ [][NextNormalize]_vars

(***************************************************************************)
(* The canonical form as section 4.1 of the specification words it: every  *)
(* whitespace character removed, the leading alphabetic run kept, leading  *)
(* zeros stripped from what follows it, and an empty rest written "0".     *)
(***************************************************************************)
CanonicalForm(x) ==
    IF x = None THEN None
    ELSE LET r == SelectSeq(x, LAMBDA c : ~IsSpace(c)) IN
         IF r = <<>> THEN None
         ELSE LET i == LeadingAlpha(r, 0) IN
              Take(r, i) \o OrZero(LStripZeros(Drop(r, i)))

\* C6: normalization is idempotent: for every reference string x,
\* normalize_reference(normalize_reference(x)) = normalize_reference(x).
C6_Idempotent == pc = "renormalized" => ret.twice = ret.once

\* C7: normalize_reference computes the specified canonical form for every
\* input: None, empty and all-whitespace strings give None; otherwise all
\* whitespace is removed, the alphabetic prefix is kept, leading zeros are
\* stripped from the remainder, and an empty remainder becomes "0".
C7_CanonicalForm == pc = "returned" => ret.once = CanonicalForm(args.ref)

(***************************************************************************)
(* levenshtein_distance (match.py 92-121)                                  *)
(***************************************************************************)
Min2(a, b) == IF a <= b THEN a ELSE b

Max2(a, b) == IF a >= b THEN a ELSE b

\* min(insertions, deletions, substitutions)
Min3(a, b, c) == Min2(a, Min2(b, c))

\* range(n + 1) as a row: cell j (0-based) is row[j + 1]
RangeRow(n) == [k \in 1..(n + 1) |-> k - 1]

\* a cell of the matrix whose substitution costs 1 even when the characters agree
LevCellAlwaysSubstitutes(previous_row, current_row, j, c1, c2) ==
    Min3(previous_row[j + 2] + 1, current_row[j + 1] + 1, previous_row[j + 1] + 1)

\* lines 115-118: the cell for c1 against c2 = s2[j] (j 0-based)
LevCell(previous_row, current_row, j, c1, c2) ==
    LET insertions == previous_row[j + 2] + 1
        deletions == current_row[j + 1] + 1
        substitutions == previous_row[j + 1] + (IF c1 # c2 THEN 1 ELSE 0)
    IN  Min3(insertions, deletions, substitutions)

\* lines 113-118: the inner loop over s2, appending to current_row, which
\* holds j + 1 cells when iteration j begins. The guard reads current_row so
\* that each cell is computed in its own iteration, in the code's order.
RECURSIVE LevRow(_, _, _, _, _)
LevRow(previous_row, current_row, c1, s2, j) ==
    IF j >= Len(s2) \/ Len(current_row) # j + 1 THEN current_row
    ELSE LevRow(previous_row,
                Append(current_row,
                       LevCell(previous_row, current_row, j, c1, s2[j + 1])),
                c1, s2, j + 1)

\* lines 111-119: the outer loop over s1, keeping one rolling row of
\* len(s2) + 1 cells. The guard reads previous_row so that each row is
\* complete before the next iteration begins, in the code's order.
RECURSIVE LevRows(_, _, _, _)
LevRows(previous_row, s1, s2, i) ==
    IF i >= Len(s1) \/ Len(previous_row) # Len(s2) + 1 THEN previous_row
    ELSE LevRows(LevRow(previous_row, <<i + 1>>, s1[i + 1], s2, 0), s1, s2, i + 1)

RECURSIVE levenshtein_distance(_, _)
levenshtein_distance(s1, s2) ==
    IF Len(s1) < Len(s2) THEN levenshtein_distance(s2, s1)
    ELSE IF Len(s2) = 0 THEN Len(s1)
    ELSE LET last == LevRows(RangeRow(Len(s2)), s1, s2, 0) IN last[Len(last)]

(***************************************************************************)
(* Calls of levenshtein_distance on three strings, in the orders that the  *)
(* metric laws relate.                                                     *)
(***************************************************************************)
MaxLevLen == 3

LevAlphabet == {"a", "b"}

LevInputs == StrsUpTo(LevAlphabet, MaxLevLen)

InitLevenshtein ==
    /\ fn = "levenshtein_distance"
    /\ pc = "call"
    /\ \E a \in LevInputs, b \in LevInputs, c \in LevInputs :
          args = [s1 |-> a, s2 |-> b, s3 |-> c]
    /\ ret = NoFrame

Levenshtein ==
    /\ fn = "levenshtein_distance"
    /\ pc = "call"
    /\ ret' = [d12 |-> levenshtein_distance(args.s1, args.s2),
               d21 |-> levenshtein_distance(args.s2, args.s1),
               d23 |-> levenshtein_distance(args.s2, args.s3),
               d13 |-> levenshtein_distance(args.s1, args.s3)]
    /\ pc' = "returned"
    /\ UNCHANGED <<fn, args>>

NextLevenshtein == Levenshtein

SpecLevenshtein == InitLevenshtein /\ [][NextLevenshtein]_vars

(***************************************************************************)
(* The edit distance by its definition: the least k such that k single-    *)
(* character insertions, deletions and substitutions turn a into b. A      *)
(* shortest edit script never needs a string longer than the longer of a   *)
(* and b, nor a character outside them.                                    *)
(***************************************************************************)
OneEdit(s, S, n) ==
    {Take(s, i - 1) \o Drop(s, i) : i \in 1..Len(s)}
    \cup {[s EXCEPT ![i] = c] : i \in 1..Len(s), c \in S}
    \cup (IF Len(s) < n
          THEN {Take(s, i) \o <<c>> \o Drop(s, i) : i \in 0..Len(s), c \in S}
          ELSE {})

RECURSIVE EditsWithin(_, _, _, _, _)
EditsWithin(reached, b, k, S, n) ==
    IF b \in reached THEN k
    ELSE EditsWithin(reached \cup UNION {OneEdit(s, S, n) : s \in reached},
                     b, k + 1, S, n)

CharsOf(s) == {s[k] : k \in 1..Len(s)}

MinEdits(a, b) ==
    EditsWithin({a}, b, 0, CharsOf(a) \cup CharsOf(b), Max2(Len(a), Len(b)))

MIN_SIGNIFICANT_WORD_LENGTH == 2

FUZZY_MATCH_WORD_LENGTH_CUTOFF == 6

\* 0.85, in thousandths
FUZZY_MATCH_THRESHOLD_LONG == 850

\* 1.0, in thousandths
FUZZY_MATCH_THRESHOLD_SHORT == 1000

\* str.lower() of one character
LowerChar(c) ==
    CASE c = "A" -> "a" [] c = "B" -> "b" [] c = "C" -> "c" [] c = "D" -> "d"
      [] c = "E" -> "e" [] c = "F" -> "f" [] c = "G" -> "g" [] c = "X" -> "x"
      [] c = "Y" -> "y" [] c = "R" -> "r" [] OTHER -> c

\* s.lower()
Lower(s) == [k \in 1..Len(s) |-> LowerChar(s[k])]

\* the number of whitespace characters s begins with
RECURSIVE LeadingSpace(_, _)
LeadingSpace(s, i) ==
    IF i < Len(s) /\ IsSpace(s[i + 1]) THEN LeadingSpace(s, i + 1) ELSE i

\* the number of whitespace characters s ends with
RECURSIVE TrailingSpace(_, _)
TrailingSpace(s, i) ==
    IF i < Len(s) /\ IsSpace(s[Len(s) - i]) THEN TrailingSpace(s, i + 1) ELSE i

\* s.strip()
Strip(s) ==
    LET l == LeadingSpace(s, 0) IN
    IF l = Len(s) THEN <<>> ELSE SubSeq(s, l + 1, Len(s) - TrailingSpace(s, 0))

\* the number of non-whitespace characters s has from position i (0-based) on
RECURSIVE WordRun(_, _, _)
WordRun(s, i, n) ==
    IF i + n < Len(s) /\ ~IsSpace(s[i + n + 1]) THEN WordRun(s, i, n + 1) ELSE n

\* s.split(): the maximal runs of non-whitespace characters, in order
RECURSIVE SplitFrom(_, _)
SplitFrom(s, i) ==
    IF i >= Len(s) THEN <<>>
    ELSE IF IsSpace(s[i + 1]) THEN SplitFrom(s, i + 1)
    ELSE LET n == WordRun(s, i, 0) IN
         <<SubSeq(s, i + 1, i + n)>> \o SplitFrom(s, i + n)

Split(s) == SplitFrom(s, 0)

\* a in b, for two str
IsSubstring(a, b) ==
    \E i \in 0..(Len(b) - Len(a)) : SubSeq(b, i + 1, i + Len(a)) = a

\* lines 153-154: [w for w in words if len(w) > MIN_SIGNIFICANT_WORD_LENGTH]
SignificantWords(words) ==
    SelectSeq(words, LAMBDA w : Len(w) > MIN_SIGNIFICANT_WORD_LENGTH)

\* line 173: 1 - (distance / max_len), in thousandths rounded down; the
\* thresholds are whole thousandths, so the comparisons of line 180 are exact
Similarity(distance, max_len) == ((max_len - distance) * 1000) \div max_len

\* lines 168-174: the best similarity of short_word over longer_words[k..]
RECURSIVE BestSimilarity(_, _, _, _)
BestSimilarity(short_word, longer_words, k, best_similarity) ==
    IF k > Len(longer_words) THEN best_similarity
    ELSE LET long_word == longer_words[k]
             distance == levenshtein_distance(short_word, long_word)
             max_len == Max2(Len(short_word), Len(long_word))
             similarity == Similarity(distance, max_len)
         IN  BestSimilarity(short_word, longer_words, k + 1,
                            Max2(best_similarity, similarity))

\* line 178
Threshold(short_word) ==
    IF Len(short_word) > FUZZY_MATCH_WORD_LENGTH_CUTOFF
    THEN FUZZY_MATCH_THRESHOLD_LONG
    ELSE FUZZY_MATCH_THRESHOLD_SHORT

\* lines 167-181: matched_count after the loop over shorter_words[k..]
RECURSIVE MatchedCount(_, _, _, _)
MatchedCount(shorter_words, longer_words, k, matched_count) ==
    IF k > Len(shorter_words) THEN matched_count
    ELSE LET short_word == shorter_words[k]
             best_similarity == BestSimilarity(short_word, longer_words, 1, 0)
         IN  MatchedCount(shorter_words, longer_words, k + 1,
                          IF best_similarity >= Threshold(short_word)
                          THEN matched_count + 1 ELSE matched_count)

\* a verdict that is content with one matched word
SomeWordMatched(matched_count, total_significant_words) == matched_count >= 1

\* line 186
AllWordsMatched(matched_count, total_significant_words) ==
    matched_count = total_significant_words

names_match(name1, name2) ==
    IF name1 = None \/ name2 = None THEN FALSE
    ELSE LET n1 == Strip(Lower(name1))
             n2 == Strip(Lower(name2))
         IN
         IF IsSubstring(n1, n2) \/ IsSubstring(n2, n1) THEN TRUE
         ELSE LET significant_words1 == SignificantWords(Split(n1))
                  significant_words2 == SignificantWords(Split(n2))
              IN
              IF significant_words1 = <<>> \/ significant_words2 = <<>> THEN FALSE
              ELSE LET first_is_shorter ==
                           Len(significant_words1) <= Len(significant_words2)
                       shorter_words == IF first_is_shorter THEN significant_words1
                                        ELSE significant_words2
                       longer_words == IF first_is_shorter THEN significant_words2
                                       ELSE significant_words1
                   IN  AllWordsMatched(MatchedCount(shorter_words, longer_words, 1, 0),
                                       Len(shorter_words))

(***************************************************************************)
(* Calls of names_match. The names are one to MaxNameWords words of a      *)
(* small vocabulary joined by a space, the one-word names also padded with *)
(* whitespace, the empty string and None. The vocabulary holds a word too  *)
(* short to count, two short words one edit apart, and a six-letter word   *)
(* with two seven-letter words one and two edits from it.                  *)
(***************************************************************************)
MaxNameWords == 2

NameWords == {<<"o", "y">>,
              <<"a", "b", "c">>,
              <<"A", "b", "d">>,
              <<"a", "b", "c", "d", "e", "f">>,
              <<"a", "b", "c", "x", "d", "e", "f">>,
              <<"a", "b", "c", "x", "d", "e", "g">>}

\* " ".join(words)
RECURSIVE Join(_)
Join(words) ==
    IF Len(words) = 0 THEN <<>>
    ELSE IF Len(words) = 1 THEN words[1]
    ELSE words[1] \o <<" ">> \o Join(Tail(words))

NameInputs ==
    {Join(ws) : ws \in UNION {[1..k -> NameWords] : k \in 1..MaxNameWords}}
    \cup {<<" ">> \o w \o <<"\t">> : w \in NameWords}
    \cup {<<>>, None}

InitNamesMatch ==
    /\ fn = "names_match"
    /\ pc = "call"
    /\ \E a \in NameInputs, b \in NameInputs : args = [name1 |-> a, name2 |-> b]
    /\ ret = NoFrame

NamesMatch ==
    /\ fn = "names_match"
    /\ pc = "call"
    /\ ret' = [result |-> names_match(args.name1, args.name2)]
    /\ pc' = "returned"
    /\ UNCHANGED <<fn, args>>

NextNamesMatch == NamesMatch

SpecNamesMatch == InitNamesMatch /\ [][NextNamesMatch]_vars

(***************************************************************************)
(* The token rule as section 4.4 words it, over the significant words of   *)
(* the two trimmed, lower-cased names.                                     *)
(***************************************************************************)
TrimmedLower(name) == Strip(Lower(name))

SignificantOf(name) ==
    SelectSeq(Split(TrimmedLower(name)), LAMBDA w : Len(w) > 2)

\* 1 - editDistance/max(len) is at or above the threshold of word w:
\* 1.0 when w has at most 6 characters, 0.85 otherwise
MeetsThreshold(w, v) ==
    LET d == levenshtein_distance(w, v)
        m == Max2(Len(w), Len(v))
    IN  IF Len(w) <= 6 THEN d = 0 ELSE 100 * (m - d) >= 85 * m

\* the side with fewer significant words; the first name's on a tie
FewerSide(name1, name2) ==
    IF Len(SignificantOf(name1)) <= Len(SignificantOf(name2))
    THEN SignificantOf(name1) ELSE SignificantOf(name2)

OtherSide(name1, name2) ==
    IF Len(SignificantOf(name1)) <= Len(SignificantOf(name2))
    THEN SignificantOf(name2) ELSE SignificantOf(name1)

WordHasMatch(w, others) == \E j \in DOMAIN others : MeetsThreshold(w, others[j])

TokenRule(name1, name2) ==
    /\ SignificantOf(name1) # <<>>
    /\ SignificantOf(name2) # <<>>
    /\ \A i \in DOMAIN FewerSide(name1, name2) :
          WordHasMatch(FewerSide(name1, name2)[i], OtherSide(name1, name2))

\* two names, neither trimmed lower-cased name a substring of the other
TokenRuleApplies ==
    /\ pc = "returned" /\ fn = "names_match"
    /\ args.name1 # None /\ args.name2 # None
    /\ ~IsSubstring(TrimmedLower(args.name1), TrimmedLower(args.name2))
    /\ ~IsSubstring(TrimmedLower(args.name2), TrimmedLower(args.name1))

C13_Symmetric ==
    pc = "returned" /\ fn = "names_match" =>
        ret.result = names_match(args.name2, args.name1)

(***************************************************************************)
(* amounts_match (match.py 81-89)                                        *)
(***************************************************************************)
\* 0.01, in thousandths of a currency unit
AMOUNT_TOLERANCE == 10

Abs(x) == IF x < 0 THEN 0 - x ELSE x

amounts_match(amount1, amount2) ==
    Abs(Abs(amount1) - Abs(amount2)) < AMOUNT_TOLERANCE

(***************************************************************************)
(* dates_within_range (match.py 189-200)                                   *)
(***************************************************************************)
DEFAULT_DATE_TOLERANCE_DAYS == 1

\* strptime raised ValueError: the text names no calendar day
ParseError == 0 - 1

\* strptime raised TypeError: the argument is None, not a str
ParseTypeError == 0 - 2

IsLeapYear(y) == (y % 4 = 0 /\ y % 100 # 0) \/ y % 400 = 0

DaysInMonth(y, m) ==
    IF m = 2 THEN (IF IsLeapYear(y) THEN 29 ELSE 28)
    ELSE IF m \in {4, 6, 9, 11} THEN 30 ELSE 31

\* the days of year y before month m
RECURSIVE DaysBeforeMonth(_, _)
DaysBeforeMonth(y, m) ==
    IF m <= 1 THEN 0 ELSE DaysBeforeMonth(y, m - 1) + DaysInMonth(y, m - 1)

\* datetime.strptime(date, "%Y-%m-%d") as the day's proleptic ordinal, or
\* the exception it raises
ParseDate(date) ==
    IF date = None THEN ParseTypeError
    ELSE IF Len(date) # 3 THEN ParseError
    ELSE LET y == date[1]
             m == date[2]
             d == date[3]
         IN  IF y < 1 \/ m < 1 \/ m > 12 \/ d < 1 THEN ParseError
             ELSE IF d > DaysInMonth(y, m) THEN ParseError
             ELSE 365 * (y - 1) + ((y - 1) \div 4) - ((y - 1) \div 100)
                  + ((y - 1) \div 400) + DaysBeforeMonth(y, m) + d

\* an except clause that lets TypeError through
CatchesValueErrorOnly(error) == error = ParseError

\* line 199: except (ValueError, TypeError)
Catches(error) == error \in {ParseError, ParseTypeError}

\* lines 195-196: the exception the try block raises, date1 parsed first;
\* 0 when both dates parse
DateError(date1, date2) ==
    IF ParseDate(date1) < 0 THEN ParseDate(date1)
    ELSE IF ParseDate(date2) < 0 THEN ParseDate(date2)
    ELSE 0

\* an exception leaves dates_within_range
DatesWithinRangeRaises(date1, date2) ==
    DateError(date1, date2) # 0 /\ ~Catches(DateError(date1, date2))

\* the value dates_within_range returns, when it returns
dates_within_range(date1, date2, days) ==
    LET d1 == ParseDate(date1)
        d2 == ParseDate(date2)
    IN  IF DateError(date1, date2) # 0 THEN FALSE
        ELSE Abs(d1 - d2) <= days

(***************************************************************************)
(* Field extractors (match.py 61-78, 203-234). A dict is a function from   *)
(* its keys: an attachment is [data |-> d], d with some of the keys        *)
(* reference, total_amount, invoicing_date, due_date, receiving_date,      *)
(* supplier, recipient.                                                    *)
(***************************************************************************)
\* key in d
Has(d, key) == key \in DOMAIN d

\* d.get(key, default)
Get(d, key, default) == IF key \in DOMAIN d THEN d[key] ELSE default

\* {}
EmptyDict == [k \in {} |-> None]

\* attachment.get("data", {})
DataOf(attachment) == Get(attachment, "data", EmptyDict)

get_counterparty(attachment) ==
    LET data == DataOf(attachment) IN
    IF Has(data, "supplier") THEN data["supplier"]
    ELSE IF Has(data, "recipient") THEN data["recipient"]
    ELSE None

get_attachment_dates(attachment) ==
    LET data == DataOf(attachment) IN
    (IF Has(data, "invoicing_date") THEN <<data["invoicing_date"]>> ELSE <<>>)
    \o (IF Has(data, "due_date") THEN <<data["due_date"]>> ELSE <<>>)
    \o (IF Has(data, "receiving_date") THEN <<data["receiving_date"]>> ELSE <<>>)

\* a direction check that is content with either counterparty field
EitherFieldCompatible(tx_amount, attachment) ==
    Has(DataOf(attachment), "supplier") \/ Has(DataOf(attachment), "recipient")

is_direction_compatible(tx_amount, attachment) ==
    LET data == DataOf(attachment) IN
    IF tx_amount < 0 THEN Has(data, "supplier") ELSE Has(data, "recipient")

(***************************************************************************)
(* _score_match (match.py 237-314). A confidence is in thousandths; the    *)
(* result is None or <<confidence, target_item>>, and Raised when an       *)
(* exception leaves the function.                                          *)
(***************************************************************************)
Raised == <<"Raised">>

POINTS_DATE_MATCH == 2

POINTS_NAME_MATCH == 2

POINTS_NULL_CONTACT_BONUS == 1

MAX_POINTS == POINTS_DATE_MATCH + POINTS_NAME_MATCH + POINTS_NULL_CONTACT_BONUS

\* 0.4, in thousandths
MIN_MATCH_CONFIDENCE == 400

\* 1.0, in thousandths
PERFECT_CONFIDENCE == 1000

\* the truth value of a str | None: None and "" are false
Truthy(x) == x # None /\ x # <<>>

\* line 275: any(dates_within_range(source_date, d) for d in target_dates)
AnyDateMatches(source_date, target_dates) ==
    \E k \in 1..Len(target_dates) :
        dates_within_range(source_date, target_dates[k], DEFAULT_DATE_TOLERANCE_DAYS)

\* line 275: the generator inside any() raises at the first date whose
\* comparison raises, unless an earlier date has matched
AnyDateRaises(source_date, target_dates) ==
    \E k \in 1..Len(target_dates) :
        /\ DatesWithinRangeRaises(source_date, target_dates[k])
        /\ \A j \in 1..(k - 1) :
              /\ ~DatesWithinRangeRaises(source_date, target_dates[j])
              /\ ~dates_within_range(source_date, target_dates[j],
                                     DEFAULT_DATE_TOLERANCE_DAYS)

\* lines 295-301
Points(date_matches, name_matches, source_contact, target_counterparty) ==
    (IF date_matches THEN POINTS_DATE_MATCH ELSE 0)
    + (IF name_matches THEN POINTS_NAME_MATCH ELSE 0)
    + (IF (source_contact = None \/ target_counterparty = None) /\ date_matches
       THEN POINTS_NULL_CONTACT_BONUS ELSE 0)

\* a floor that every confidence meets
AcceptsAnyConfidence(confidence) == confidence >= 0

\* a floor that a confidence must exceed
ExceedsFloor(confidence) == confidence > MIN_MATCH_CONFIDENCE

\* line 311
MeetsFloor(confidence) == confidence >= MIN_MATCH_CONFIDENCE

_score_match(source_amount, source_date, source_contact, source_ref, target_amount, target_dates, target_counterparty, target_ref, target_item) ==
    IF Truthy(source_ref) /\ Truthy(target_ref) /\ source_ref = target_ref
    THEN <<PERFECT_CONFIDENCE, target_item>>
    ELSE IF ~amounts_match(source_amount, target_amount) THEN None
    ELSE IF AnyDateRaises(source_date, target_dates) THEN Raised
    ELSE LET date_matches == AnyDateMatches(source_date, target_dates)
             name_matches == names_match(source_contact, target_counterparty)
             points == Points(date_matches, name_matches,
                              source_contact, target_counterparty)
             confidence == (points * 1000) \div MAX_POINTS
         IN  IF source_contact # None /\ target_counterparty # None
                /\ ~name_matches /\ date_matches
             THEN None
             ELSE IF MeetsFloor(confidence) THEN <<confidence, target_item>>
             ELSE None

(***************************************************************************)
(* Calls of _score_match: amounts equal, inside and at the tolerance and   *)
(* far apart; a source date that parses and one that does not (June 31);   *)
(* no target date, one a day later, one two days later, a far and a near   *)
(* one; contacts that are None, equal, or one edit apart; references.      *)
(***************************************************************************)
ScoreSourceAmounts == {0 - 100000, 100000}

ScoreTargetAmounts == {100000, 100009, 100010, 50000}

ScoreSourceDates == {<<2024, 6, 30>>, <<2024, 6, 31>>}

ScoreTargetDates == {<<>>,
                     <<<<2024, 7, 1>>>>,
                     <<<<2024, 7, 2>>>>,
                     <<<<2024, 7, 2>>, <<2024, 6, 29>>>>}

ScoreContacts == {None, <<"a", "b", "c">>, <<"A", "b", "d">>}

ScoreRefs == {None, <<"1">>, <<"2">>}

InitScoreMatch ==
    /\ fn = "_score_match"
    /\ pc = "call"
    /\ \E sa \in ScoreSourceAmounts, sd \in ScoreSourceDates,
          sc \in ScoreContacts, sr \in ScoreRefs,
          ta \in ScoreTargetAmounts, td \in ScoreTargetDates,
          tc \in ScoreContacts, tr \in ScoreRefs :
          args = [source_amount |-> sa, source_date |-> sd,
                  source_contact |-> sc, source_ref |-> sr,
                  target_amount |-> ta, target_dates |-> td,
                  target_counterparty |-> tc, target_ref |-> tr,
                  target_item |-> 1]
    /\ ret = NoFrame

ScoreMatch ==
    /\ fn = "_score_match"
    /\ pc = "call"
    /\ ret' = [result |-> _score_match(args.source_amount, args.source_date,
                                       args.source_contact, args.source_ref,
                                       args.target_amount, args.target_dates,
                                       args.target_counterparty, args.target_ref,
                                       args.target_item)]
    /\ pc' = "returned"
    /\ UNCHANGED <<fn, args>>

NextScoreMatch == ScoreMatch

SpecScoreMatch == InitScoreMatch /\ [][NextScoreMatch]_vars

(***************************************************************************)
(* The Scorer's decision as section 4.6 words it.                          *)
(***************************************************************************)
ScoreReturned == pc = "returned" /\ fn = "_score_match"

ReferenceIdentity ==
    /\ args.source_ref # None /\ args.target_ref # None
    /\ args.source_ref = args.target_ref

AmountsAgree ==
    Abs(Abs(args.source_amount) - Abs(args.target_amount)) < 10

DateAgrees ==
    \E k \in DOMAIN args.target_dates :
        dates_within_range(args.source_date, args.target_dates[k], 1)

NamesAgree == names_match(args.source_contact, args.target_counterparty)

BothContacts == args.source_contact # None /\ args.target_counterparty # None

SpecPoints ==
    (IF DateAgrees THEN 2 ELSE 0) + (IF NamesAgree THEN 2 ELSE 0)
    + (IF DateAgrees /\ ~BothContacts THEN 1 ELSE 0)

\* C5: without reference identity _score_match returns a result iff the
\* amounts match within tolerance, it is not the case that both contacts are
\* present with no name match and a date match, and points/5 >= 0.4; the
\* confidence returned is points/5 and lies in [0,1]; a name match alone is
\* accepted at 0.4 and an amount match with neither date nor name is rejected.
C5_ScorerDecision ==
    ScoreReturned /\ ~ReferenceIdentity =>
        /\ ret.result # None <=>
              /\ AmountsAgree
              /\ ~(BothContacts /\ ~NamesAgree /\ DateAgrees)
              /\ 10 * SpecPoints >= 4 * 5
        /\ ret.result # None =>
              /\ 5 * ret.result[1] = 1000 * SpecPoints
              /\ ret.result[1] >= 0 /\ ret.result[1] <= 1000
              /\ ret.result[2] = args.target_item
        /\ AmountsAgree /\ NamesAgree /\ ~DateAgrees =>
              ret.result = <<400, args.target_item>>
        /\ ~NamesAgree /\ ~DateAgrees => ret.result = None

\* the floor itself: amounts and names agree, no date does, accepted at 0.4
C5_Witness ==
    /\ ScoreReturned /\ ~ReferenceIdentity
    /\ AmountsAgree /\ NamesAgree /\ ~DateAgrees
    /\ args.target_dates # <<>>
    /\ ret.result = <<400, args.target_item>>

(***************************************************************************)
(* find_attachment and find_transaction (match.py 317-455). The value      *)
(* returned is a borrowed reference to a candidate: the model returns the  *)
(* candidate's position in the list (1-based), and NoMatch for None. Each  *)
(* operator also reports the list collected by the scored pass (before the *)
(* sort) and the pass that produced the return, "raised" for a call that   *)
(* an exception ended.                                                     *)
(***************************************************************************)
NoMatch == 0

\* the least element of a non-empty set of positions, NoMatch of the empty set
FirstOf(positions) ==
    IF positions = {} THEN NoMatch
    ELSE CHOOSE k \in positions : \A l \in positions : k <= l

\* candidates.sort(key=lambda x: x[0], reverse=True), one insertion: the sort
\* is stable, so c goes behind every entry whose confidence is not smaller
RECURSIVE InsertByConfidence(_, _)
InsertByConfidence(sorted, c) ==
    IF sorted = <<>> THEN <<c>>
    ELSE IF Head(sorted)[1] >= c[1]
         THEN <<Head(sorted)>> \o InsertByConfidence(Tail(sorted), c)
         ELSE <<c>> \o sorted

RECURSIVE SortByConfidence(_, _, _)
SortByConfidence(sorted, candidates, k) ==
    IF k > Len(candidates) THEN sorted
    ELSE SortByConfidence(InsertByConfidence(sorted, candidates[k]), candidates, k + 1)

\* a resolve step that breaks ties in favour of the first candidate
ResolveFirstWins(candidates) ==
    IF candidates = <<>> THEN NoMatch
    ELSE SortByConfidence(<<>>, candidates, 1)[1][2]

\* lines 371-383 and 443-455
Resolve(candidates) ==
    IF candidates = <<>> THEN NoMatch
    ELSE LET sorted == SortByConfidence(<<>>, candidates, 1) IN
         IF Len(sorted) > 1 /\ sorted[1][1] = sorted[2][1] THEN NoMatch
         ELSE sorted[1][2]

\* a reference pass that returns the last candidate carrying the reference
LastReferenceMatch(query_ref, references) ==
    IF ~Truthy(query_ref) \/ references = <<>> THEN NoMatch
    ELSE LET hits == {k \in 1..Len(references) :
                        Truthy(references[k]) /\ query_ref = references[k]}
         IN  IF hits = {} THEN NoMatch
             ELSE CHOOSE k \in hits : \A l \in hits : k >= l

\* lines 333-337 and 401-405: the first candidate, in input order, whose
\* normalized reference is non-empty and equals the query's
FirstReferenceMatch(query_ref, references) ==
    IF ~Truthy(query_ref) THEN NoMatch
    ELSE FirstOf({k \in 1..Len(references) :
                    Truthy(references[k]) /\ query_ref = references[k]})

\* an exception left the scored pass: the loop that builds the candidates
\* list keeps it as the entry Raised, and the call ends with it
HasRaised(candidates) == \E i \in DOMAIN candidates : candidates[i] = Raised

\* lines 342-369: the candidates list built from attachments[k..]
RECURSIVE AttachmentCandidates(_, _, _)
AttachmentCandidates(transaction, attachments, k) ==
    IF k > Len(attachments) THEN <<>>
    ELSE LET attachment == attachments[k]
             data == DataOf(attachment)
             tx_date == Get(transaction, "date", None)
             tx_amount == Get(transaction, "amount", None)
             tx_contact == Get(transaction, "contact", None)
             rest == AttachmentCandidates(transaction, attachments, k + 1)
         IN  IF ~is_direction_compatible(tx_amount, attachment) THEN rest
             ELSE LET att_amount == Get(data, "total_amount", 0)
                      att_dates == get_attachment_dates(attachment)
                      att_counterparty == get_counterparty(attachment)
                      result == _score_match(tx_amount, tx_date, tx_contact, None,
                                             att_amount, att_dates,
                                             att_counterparty, None, k)
                  IN  (IF result # None THEN <<result>> ELSE <<>>) \o rest

find_attachment(transaction, attachments) ==
    LET tx_ref == normalize_reference(Get(transaction, "reference", None))
        att_refs == [k \in 1..Len(attachments) |->
                        normalize_reference(Get(DataOf(attachments[k]),
                                                "reference", None))]
        by_reference == FirstReferenceMatch(tx_ref, att_refs)
        candidates == AttachmentCandidates(transaction, attachments, 1)
    IN  IF by_reference # NoMatch
        THEN [result |-> by_reference, candidates |-> <<>>, pass |-> "reference"]
        ELSE IF HasRaised(candidates)
        THEN [result |-> NoMatch, candidates |-> <<>>, pass |-> "raised"]
        ELSE [result |-> Resolve(candidates), candidates |-> candidates,
              pass |-> "scored"]

\* a comparison that keeps the first accepted result
KeepsFirstResult(result, best_result) == result # None /\ best_result = None

\* line 437: result and (not best_result or result[0] > best_result[0])
IsBetterResult(result, best_result) ==
    result # None /\ (best_result = None \/ result[1] > best_result[1])

\* lines 424-438: best_result after scoring att_dates[k..], Raised once an
\* exception has left _score_match
RECURSIVE BestResult(_, _, _, _, _, _, _)
BestResult(att_amount, att_dates, att_counterparty, transaction, item, k, best_result) ==
    IF k > Len(att_dates) \/ best_result = Raised THEN best_result
    ELSE LET result == _score_match(att_amount, att_dates[k], att_counterparty, None,
                                    Get(transaction, "amount", None),
                                    <<Get(transaction, "date", None)>>,
                                    Get(transaction, "contact", None), None, item)
         IN  BestResult(att_amount, att_dates, att_counterparty, transaction, item,
                        k + 1,
                        IF result = Raised \/ IsBetterResult(result, best_result)
                        THEN result ELSE best_result)

\* lines 410-441: the candidates list built from transactions[k..]
RECURSIVE TransactionCandidates(_, _, _)
TransactionCandidates(attachment, transactions, k) ==
    IF k > Len(transactions) THEN <<>>
    ELSE LET transaction == transactions[k]
             att_dates == get_attachment_dates(attachment)
             att_amount == Get(DataOf(attachment), "total_amount", 0)
             att_counterparty == get_counterparty(attachment)
             tx_amount == Get(transaction, "amount", None)
             rest == TransactionCandidates(attachment, transactions, k + 1)
         IN  IF ~is_direction_compatible(tx_amount, attachment) THEN rest
             ELSE IF att_dates = <<>> THEN rest
             ELSE LET best_result == BestResult(att_amount, att_dates,
                                                att_counterparty, transaction,
                                                k, 1, None)
                  IN  (IF best_result # None THEN <<best_result>> ELSE <<>>) \o rest

find_transaction(attachment, transactions) ==
    LET att_ref == normalize_reference(Get(DataOf(attachment), "reference", None))
        tx_refs == [k \in 1..Len(transactions) |->
                       normalize_reference(Get(transactions[k], "reference", None))]
        by_reference == FirstReferenceMatch(att_ref, tx_refs)
        candidates == TransactionCandidates(attachment, transactions, 1)
    IN  IF by_reference # NoMatch
        THEN [result |-> by_reference, candidates |-> <<>>, pass |-> "reference"]
        ELSE IF HasRaised(candidates)
        THEN [result |-> NoMatch, candidates |-> <<>>, pass |-> "raised"]
        ELSE [result |-> Resolve(candidates), candidates |-> candidates,
              pass |-> "scored"]

(***************************************************************************)
(* Calls of find_attachment and find_transaction: a query and a list of at *)
(* most MaxCandidates candidates. The transactions are dated 2024-06-30.   *)
(* The attachments expose no date, one date a day later, a far and a near  *)
(* date, or two near dates; their counterparty is missing, a supplier, a   *)
(* supplier of None, or a recipient one edit from the contact; the         *)
(* references "0 1" and "1" normalize to the same text, "2" to another.    *)
(***************************************************************************)
MaxCandidates == 2

AcmeName == <<"a", "b", "c">>

TxReferences == {None, <<"0", " ", "1">>, <<"2">>}

TxAmounts == {0 - 100000, 100000, 0 - 50000}

TxContacts == {None, AcmeName}

Transactions ==
    [reference : TxReferences, date : {<<2024, 6, 30>>},
     amount : TxAmounts, contact : TxContacts]

AttReferenceFields == {EmptyDict, [reference |-> <<"1">>]}

AttDateFields ==
    {EmptyDict,
     [invoicing_date |-> <<2024, 7, 1>>],
     [invoicing_date |-> <<2024, 6, 1>>, due_date |-> <<2024, 6, 30>>],
     [due_date |-> <<2024, 6, 29>>, receiving_date |-> <<2024, 6, 30>>]}

AttCounterpartyFields ==
    {EmptyDict,
     [supplier |-> <<"A", "b", "c", " ", "o", "y">>],
     [supplier |-> None],
     [recipient |-> <<"A", "b", "d">>]}

Attachments ==
    {[data |-> r @@ d @@ c @@ [total_amount |-> 100000]] :
        r \in AttReferenceFields, d \in AttDateFields, c \in AttCounterpartyFields}

ListsOf(S) == UNION {[1..k -> S] : k \in 0..MaxCandidates}

InitMatch ==
    /\ pc = "call"
    /\ ret = NoFrame
    /\ \/ /\ fn = "find_attachment"
          /\ \E t \in Transactions, l \in ListsOf(Attachments) :
                args = [transaction |-> t, attachments |-> l]
       \/ /\ fn = "find_transaction"
          /\ \E a \in Attachments, l \in ListsOf(Transactions) :
                args = [attachment |-> a, transactions |-> l]

FindAttachment ==
    /\ fn = "find_attachment"
    /\ pc = "call"
    /\ ret' = find_attachment(args.transaction, args.attachments)
    /\ pc' = "returned"
    /\ UNCHANGED <<fn, args>>

FindTransaction ==
    /\ fn = "find_transaction"
    /\ pc = "call"
    /\ ret' = find_transaction(args.attachment, args.transactions)
    /\ pc' = "returned"
    /\ UNCHANGED <<fn, args>>

NextMatch == FindAttachment \/ FindTransaction

SpecMatch == InitMatch /\ [][NextMatch]_vars

(***************************************************************************)
(* Calls of the matchers on records with optional fields missing: a query  *)
(* and at most MaxSparseCandidates candidates. A transaction has an amount *)
(* and may lack reference, date and contact, or hold None for them; its    *)
(* date may be the text "2024-06-31". An attachment has a total_amount and *)
(* may lack reference, dates and counterparty or hold None for them; a     *)
(* date of it may be "?" or "2024-06-31".                                  *)
(***************************************************************************)
MaxSparseCandidates == 1

SparseReferenceFields == {EmptyDict, [reference |-> None]}

SparseTxDateFields ==
    {EmptyDict,
     [date |-> None],
     [date |-> <<2024, 6, 31>>],
     [date |-> <<2024, 6, 30>>]}

SparseTxContactFields == {EmptyDict, [contact |-> None], [contact |-> AcmeName]}

SparseTransactions ==
    {r @@ d @@ c @@ [amount |-> m] :
        r \in SparseReferenceFields, d \in SparseTxDateFields,
        c \in SparseTxContactFields, m \in {0 - 100000, 100000}}

SparseAttDateFields ==
    {EmptyDict,
     [invoicing_date |-> None],
     [invoicing_date |-> <<"?">>],
     [due_date |-> <<2024, 6, 31>>, receiving_date |-> <<2024, 6, 30>>],
     [invoicing_date |-> <<2024, 6, 30>>, due_date |-> None]}

SparseAttCounterpartyFields ==
    {EmptyDict,
     [supplier |-> None],
     [supplier |-> <<"A", "b", "c", " ", "o", "y">>],
     [recipient |-> None],
     [recipient |-> AcmeName]}

SparseAttachments ==
    {[data |-> r @@ d @@ c @@ [total_amount |-> 100000]] :
        r \in SparseReferenceFields, d \in SparseAttDateFields,
        c \in SparseAttCounterpartyFields}

SparseListsOf(S) == UNION {[1..k -> S] : k \in 0..MaxSparseCandidates}

InitSparseMatch ==
    /\ pc = "call"
    /\ ret = NoFrame
    /\ \/ /\ fn = "find_attachment"
          /\ \E t \in SparseTransactions, l \in SparseListsOf(SparseAttachments) :
                args = [transaction |-> t, attachments |-> l]
       \/ /\ fn = "find_transaction"
          /\ \E a \in SparseAttachments, l \in SparseListsOf(SparseTransactions) :
                args = [attachment |-> a, transactions |-> l]

SpecSparseMatch == InitSparseMatch /\ [][NextMatch]_vars

(***************************************************************************)
(* Calls of the matchers in which no candidate carries the query's         *)
(* reference: the query has none or "2", a candidate none or "1". The      *)
(* attachments expose no date, a near date, or a far and a near date, and  *)
(* a matching supplier, a supplier of None or a recipient.                 *)
(***************************************************************************)
UnreferencedTransactions ==
    [reference : {None, <<"2">>}, date : {<<2024, 6, 30>>},
     amount : {0 - 100000, 100000}, contact : TxContacts]

UnreferencedAttachments ==
    {[data |-> r @@ d @@ c @@ [total_amount |-> 100000]] :
        r \in AttReferenceFields,
        d \in {EmptyDict,
               [invoicing_date |-> <<2024, 7, 1>>],
               [invoicing_date |-> <<2024, 6, 1>>, due_date |-> <<2024, 6, 30>>]},
        c \in {[supplier |-> <<"A", "b", "c", " ", "o", "y">>],
               [supplier |-> None],
               [recipient |-> <<"A", "b", "d">>]}}

InitUnreferencedMatch ==
    /\ pc = "call"
    /\ ret = NoFrame
    /\ \/ /\ fn = "find_attachment"
          /\ \E t \in UnreferencedTransactions, l \in ListsOf(UnreferencedAttachments) :
                args = [transaction |-> t, attachments |-> l]
       \/ /\ fn = "find_transaction"
          /\ \E a \in UnreferencedAttachments, l \in ListsOf(UnreferencedTransactions) :
                args = [attachment |-> a, transactions |-> l]

SpecUnreferencedMatch == InitUnreferencedMatch /\ [][NextMatch]_vars

(***************************************************************************)
(* What a returned call of a matcher shows.                                *)
(***************************************************************************)
MatchReturned == pc = "returned" /\ fn \in {"find_attachment", "find_transaction"}

\* the candidate list of the call
CandidateList ==
    IF fn = "find_attachment" THEN args.attachments ELSE args.transactions

\* the transaction and the attachment of the pairing with candidate k
PairTransaction(k) ==
    IF fn = "find_attachment" THEN args.transaction ELSE args.transactions[k]

PairAttachment(k) ==
    IF fn = "find_attachment" THEN args.attachments[k] ELSE args.attachment

TransactionRef(t) == normalize_reference(Get(t, "reference", None))

AttachmentRef(a) == normalize_reference(Get(DataOf(a), "reference", None))

QueryRef ==
    IF fn = "find_attachment" THEN TransactionRef(args.transaction)
    ELSE AttachmentRef(args.attachment)

CandidateRef(k) ==
    IF fn = "find_attachment" THEN AttachmentRef(args.attachments[k])
    ELSE TransactionRef(args.transactions[k])

\* the candidates whose normalized reference is the query's, a non-null one
ReferenceHits ==
    {k \in DOMAIN CandidateList : QueryRef # None /\ CandidateRef(k) = QueryRef}

\* the verdicts of the Scorer on the pairing with candidate k, references
\* withheld: one for find_attachment, one per attachment date for
\* find_transaction
ScorerVerdicts(k) ==
    LET t == PairTransaction(k)
        a == PairAttachment(k)
    IN  IF fn = "find_attachment"
        THEN {_score_match(t.amount, t.date, t.contact, None,
                           Get(DataOf(a), "total_amount", 0),
                           get_attachment_dates(a), get_counterparty(a), None, k)}
        ELSE {_score_match(Get(DataOf(a), "total_amount", 0),
                           get_attachment_dates(a)[i], get_counterparty(a), None,
                           t.amount, <<t.date>>, t.contact, None, k) :
                 i \in DOMAIN get_attachment_dates(a)}

ScorerAccepted(k) == \E v \in ScorerVerdicts(k) : v # None /\ v[1] >= 400

DirectionOk(k) ==
    LET t == PairTransaction(k)
        data == DataOf(PairAttachment(k))
    IN  /\ t.amount < 0 => "supplier" \in DOMAIN data
        /\ t.amount >= 0 => "recipient" \in DOMAIN data

\* C1: when the query's normalized reference is non-null and some candidate
\* has an equal normalized reference, the result is the first such candidate
\* in input order, whatever its direction, amount, dates and contact, and
\* however many candidates carry the reference.
C1_FirstReferenceWins ==
    MatchReturned /\ ReferenceHits # {} =>
        /\ ret.result \in ReferenceHits
        /\ \A k \in ReferenceHits : ret.result <= k

\* two candidates carry the reference; the first is direction-incompatible and
\* its amount differs from the query's, and it is the one returned
C1_Witness ==
    /\ MatchReturned
    /\ Cardinality(ReferenceHits) >= 2
    /\ ret.result = 1
    /\ ~DirectionOk(1)
    /\ ~amounts_match(PairTransaction(1).amount,
                      Get(DataOf(PairAttachment(1)), "total_amount", 0))

\* the positions in the collected list that hold its highest confidence
TopCollected ==
    {i \in DOMAIN ret.candidates :
        \A j \in DOMAIN ret.candidates : ret.candidates[i][1] >= ret.candidates[j][1]}

\* C2: the resolve step is reached only when the reference pass found
\* nothing; if two or more collected candidates share the highest confidence
\* the result is none, otherwise it is the one collected candidate whose
\* confidence is strictly greater than that of every other.
C2_Resolve ==
    MatchReturned /\ ret.pass = "scored" =>
        /\ ReferenceHits = {}
        /\ ret.candidates = <<>> => ret.result = NoMatch
        /\ Cardinality(TopCollected) >= 2 => ret.result = NoMatch
        /\ Cardinality(TopCollected) = 1 =>
              \A i \in TopCollected : ret.result = ret.candidates[i][2]

\* two candidates were collected, the later one with the strictly greater
\* confidence, and it is returned
C2_Witness ==
    /\ MatchReturned /\ ret.pass = "scored"
    /\ Len(ret.candidates) = 2
    /\ ret.candidates[2][1] > ret.candidates[1][1]
    /\ ret.result = ret.candidates[2][2]

\* C3: the value returned is none or an element of the candidate list that
\* (a) carries the query's non-null normalized reference or (b) was accepted
\* by the Scorer with confidence >= 0.4; an empty list gives none.
C3_ResultIsJustified ==
    MatchReturned =>
        /\ CandidateList = <<>> => ret.result = NoMatch
        /\ ret.result # NoMatch =>
              /\ ret.result \in DOMAIN CandidateList
              /\ ret.result \in ReferenceHits \/ ScorerAccepted(ret.result)

\* the second of two candidates is returned on the Scorer's word alone, the
\* first having matched in amount and direction and been rejected
C3_Witness ==
    /\ MatchReturned
    /\ Len(CandidateList) = 2
    /\ ret.result = 2
    /\ ReferenceHits = {}
    /\ DirectionOk(1)
    /\ amounts_match(PairTransaction(1).amount,
                     Get(DataOf(PairAttachment(1)), "total_amount", 0))
    /\ ~ScorerAccepted(1)

\* C4: when no reference match exists the pairing returned is direction-
\* compatible: a transaction with amount < 0 is paired only with an attachment
\* that has a supplier field, one with amount >= 0 only with an attachment
\* that has a recipient field.
C4_DirectionCompatible ==
    MatchReturned /\ ReferenceHits = {} /\ ret.result # NoMatch =>
        DirectionOk(ret.result)

\* a candidate that the Scorer would accept is passed over for its direction,
\* and a compatible one is returned
C4_Witness ==
    /\ MatchReturned /\ ReferenceHits = {}
    /\ ret.result # NoMatch
    /\ \E k \in DOMAIN CandidateList :
          k # ret.result /\ ~DirectionOk(k) /\ ScorerAccepted(k)

\* the confidences with which the Scorer accepted the pairing with candidate k
AcceptedConfidences(k) == {v[1] : v \in ScorerVerdicts(k) \ {None}}

\* the greatest element of a non-empty set of confidences
MaxOf(confidences) == CHOOSE c \in confidences : \A d \in confidences : c >= d

\* C12: in find_transaction's scored pass each candidate transaction has at
\* most one entry in the collected list, and the entry's confidence is the
\* maximum of the Scorer's accepted confidences over the attachment's dates;
\* so a single candidate accepted for several dates is returned and never
\* ties with itself.
C12_BestPerCandidate ==
    MatchReturned /\ fn = "find_transaction" /\ ret.pass = "scored" =>
        /\ \A i, j \in DOMAIN ret.candidates :
              ret.candidates[i][2] = ret.candidates[j][2] => i = j
        /\ \A i \in DOMAIN ret.candidates :
              /\ AcceptedConfidences(ret.candidates[i][2]) # {}
              /\ ret.candidates[i][1] = MaxOf(AcceptedConfidences(ret.candidates[i][2]))
        /\ Len(args.transactions) = 1 /\ AcceptedConfidences(1) # {} /\ DirectionOk(1)
              => ret.result = 1

\* the only candidate is accepted for two dates of the attachment, the later
\* date with the greater confidence; it is collected once, with the greater
\* confidence, and returned
C12_Witness ==
    /\ MatchReturned /\ fn = "find_transaction" /\ ret.pass = "scored"
    /\ Len(args.transactions) = 1
    /\ Len(get_attachment_dates(args.attachment)) = 2
    /\ Cardinality(AcceptedConfidences(1)) = 2
    /\ Len(ret.candidates) = 1
    /\ ret.candidates[1][1] = MaxOf(AcceptedConfidences(1))
    /\ ret.result = 1

\* the date and the contact of a transaction, None when the field is missing
TxDate(t) == Get(t, "date", None)

TxContact(t) == Get(t, "contact", None)

\* a date that is missing, None, or a text that names no calendar day
Unparsable(date) == ParseDate(date) < 0

\* some date of attachment a and the date of transaction t both parse and lie
\* within a day of each other
DateEvidence(t, a) ==
    \E i \in DOMAIN get_attachment_dates(a) :
        /\ ~Unparsable(TxDate(t))
        /\ ~Unparsable(get_attachment_dates(a)[i])
        /\ Abs(ParseDate(TxDate(t)) - ParseDate(get_attachment_dates(a)[i])) <= 1

\* the contact of t and the counterparty of a are both names, and they match
NameEvidence(t, a) ==
    /\ TxContact(t) # None
    /\ get_counterparty(a) # None
    /\ \/ names_match(TxContact(t), get_counterparty(a))
       \/ names_match(get_counterparty(a), TxContact(t))

\* C11: for records whose amount is present, find_attachment and
\* find_transaction complete without raising when reference, date, contact or
\* the attachment's counterparty and date fields are absent or None or a date
\* text is malformed; such a date never counts as a date match
\* (dates_within_range returns false) and such a contact never counts as a
\* name match, so a record returned by the scored pass has a parsable date
\* within range or two matching names behind it.
C11_NeverFaults ==
    MatchReturned =>
        /\ ret.pass # "raised"
        /\ \A k \in DOMAIN CandidateList :
              LET t == PairTransaction(k)
                  a == PairAttachment(k)
                  dates == get_attachment_dates(a)
              IN  /\ \A i \in DOMAIN dates :
                        Unparsable(TxDate(t)) \/ Unparsable(dates[i]) =>
                            /\ ~DatesWithinRangeRaises(TxDate(t), dates[i])
                            /\ ~DatesWithinRangeRaises(dates[i], TxDate(t))
                            /\ ~dates_within_range(TxDate(t), dates[i],
                                                   DEFAULT_DATE_TOLERANCE_DAYS)
                            /\ ~dates_within_range(dates[i], TxDate(t),
                                                   DEFAULT_DATE_TOLERANCE_DAYS)
                  /\ TxContact(t) = None \/ get_counterparty(a) = None =>
                        /\ ~names_match(TxContact(t), get_counterparty(a))
                        /\ ~names_match(get_counterparty(a), TxContact(t))
        /\ ret.pass = "scored" /\ ret.result # NoMatch =>
              \/ DateEvidence(PairTransaction(ret.result), PairAttachment(ret.result))
              \/ NameEvidence(PairTransaction(ret.result), PairAttachment(ret.result))

\* a transaction without reference and contact whose date is None is matched
\* against an attachment with an unparsable date: the call ends with none
C11_Witness ==
    /\ MatchReturned
    /\ Len(CandidateList) = 1
    /\ DOMAIN PairTransaction(1) = {"amount", "date"}
    /\ TxDate(PairTransaction(1)) = None
    /\ DirectionOk(1)
    /\ \E i \in DOMAIN get_attachment_dates(PairAttachment(1)) :
          get_attachment_dates(PairAttachment(1))[i] # None
          /\ Unparsable(get_attachment_dates(PairAttachment(1))[i])
    /\ ret.pass = "scored"
    /\ ret.result = NoMatch

\* the list l rearranged by the permutation p of its positions
Permuted(l, p) == [k \in DOMAIN l |-> l[p[k]]]

\* what the matcher of the call returns for the same query and the list l
ResultFor(l) ==
    IF fn = "find_attachment" THEN find_attachment(args.transaction, l).result
    ELSE find_transaction(args.attachment, l).result

\* the record at position k of l, as a set: empty for none
RecordAt(l, k) == IF k = NoMatch THEN {} ELSE {l[k]}

\* C14: when the query has no normalized reference, or no candidate's
\* normalized reference equals it, the record returned by find_attachment /
\* find_transaction (or none) is the same for every permutation of the
\* candidate list.
C14_OrderIndependent ==
    MatchReturned /\ ReferenceHits = {} =>
        \A p \in Permutations(DOMAIN CandidateList) :
            RecordAt(Permuted(CandidateList, p), ResultFor(Permuted(CandidateList, p)))
                = RecordAt(CandidateList, ret.result)

\* two different candidates are both collected and the second, with the
\* greater confidence, is returned; it is returned from the first position too
C14_Witness ==
    /\ MatchReturned /\ ReferenceHits = {}
    /\ Len(CandidateList) = 2
    /\ CandidateList[1] # CandidateList[2]
    /\ Len(ret.candidates) = 2
    /\ ret.result = 2
    /\ ResultFor(<<CandidateList[2], CandidateList[1]>>) = 1

\* C10: find_attachment and find_transaction are mirrors: for every
\* transaction t and attachment a, find_attachment(t, [a]) returns a if and
\* only if find_transaction(a, [t]) returns t.
C10_Mirror ==
    MatchReturned /\ fn = "find_attachment" /\ Len(args.attachments) = 1 =>
        (ret.result = 1 <=>
            find_transaction(args.attachments[1], <<args.transaction>>).result = 1)

(***************************************************************************)
(* The engine as a whole: a call of any of its functions.                  *)
(***************************************************************************)
Init ==
    \/ InitNormalize
    \/ InitLevenshtein
    \/ InitNamesMatch
    \/ InitScoreMatch
    \/ InitMatch
    \/ InitSparseMatch
    \/ InitUnreferencedMatch

Next ==
    \/ Normalize
    \/ Renormalize
    \/ Levenshtein
    \/ NamesMatch
    \/ ScoreMatch
    \/ FindAttachment
    \/ FindTransaction

Spec == Init /\ [][Next]_vars

====
